---- MODULE Spec2Model ----
(***************************************************************************)
(* Model of src/dashboard.js: the product-mix dashboard.  The state is the *)
(* closure state of the page script (rows, seriesKeys, selected, currency),*)
(* the controls it reads, the filter chips it creates, the status line,    *)
(* the chart last handed to Plotly.newPlot, and the requests in flight.    *)
(* One action per event handler; a handler runs to completion, and the     *)
(* only suspension point is the await in loadSales (line 101).             *)
(***************************************************************************)
EXTENDS Naturals, Sequences, FiniteSets

VARIABLES
    shop,          \* line 3: the shop id of the page's query string ("" when absent)
    groupEl,       \* value of #groupBy
    metricEl,      \* value of #metric
    chartEl,       \* value of #chartType
    showOrdersEl,  \* checked state of #showOrders
    statusEl,      \* text and error colour of #status
    hide,          \* whether #typeFilters carries the class "hide"
    chips,         \* the checkboxes of #typeChips, in document order
    onclickKeys,   \* the keys closed over by btnAll.onclick / btnNone.onclick
    rows,          \* line 26
    seriesKeys,    \* line 27
    selected,      \* line 28
    currency,      \* line 29
    plot,          \* the chart last given to Plotly.newPlot (none: <<>>)
    inflight,      \* the loadSales invocations suspended at line 101, oldest first
    loaded         \* the invocation whose response was applied last (none: <<>>)

vars == <<shop, groupEl, metricEl, chartEl, showOrdersEl, statusEl, hide, chips,
          onclickKeys, rows, seriesKeys, selected, currency, plot, inflight, loaded>>

(***************************************************************************)
(* Bounds                                                                  *)
(***************************************************************************)
MaxPending == 2

(***************************************************************************)
(* Values of the controls and of the script's literals                     *)
(***************************************************************************)
Categorical == "product_type"
GroupValues == {"product_type", "none"}
MetricValues == {"sales", "units"}
ChartValues == {"bar", "line"}
Shops == {"", "demo.myshopify.com"}
Null == "null"

\* line 107: the field names that never become series keys
Excluded == {"date", "total", "orders_total", "units_total", "sales_total"}

(***************************************************************************)
(* Strings compare by code unit (Array.prototype.sort without comparator); *)
(* CodeUnitOrder lists the field names of the model in that order.         *)
(***************************************************************************)
CodeUnitOrder ==
    <<"A", "B", "D", "date", "orders_total", "sales_total", "total", "units_total">>

Rank(k) == CHOOSE i \in 1..Len(CodeUnitOrder) : CodeUnitOrder[i] = k

StrLess(a, b) == Rank(a) < Rank(b)

(***************************************************************************)
(* A row is a JSON object: its own properties in insertion order, each a   *)
(* pair <<name, value>>.                                                   *)
(***************************************************************************)
ObjectKeys(r) == [i \in 1..Len(r) |-> r[i][1]]

Has(r, k) == \E i \in 1..Len(r) : r[i][1] = k

Prop(r, k) == r[CHOOSE i \in 1..Len(r) : r[i][1] = k][2]

\* r[k] || 0 : an absent property and a zero both give 0
OrZero(r, k) == IF Has(r, k) /\ Prop(r, k) # 0 THEN Prop(r, k) ELSE 0

(***************************************************************************)
(* The responses the backend may give.  A body is the parsed JSON: rows,   *)
(* currency and tz are each optional.                                      *)
(***************************************************************************)
BodyNoRows == [tz |-> "UTC"]

BodyEmpty == [rows |-> <<>>, tz |-> "UTC"]

BodyAB ==
    [rows |-> << << <<"date", "2024-01-01">>, <<"A", 5>>, <<"B", 2>>, <<"orders_total", 3>> >>,
                 << <<"date", "2024-01-02">>, <<"A", 0>>, <<"orders_total", 1>> >> >>,
     currency |-> "EUR", tz |-> "UTC"]

BodyAD ==
    [rows |-> << << <<"date", "2024-02-01">>, <<"D", 4>>, <<"total", 4>>,
                    <<"sales_total", 4>>, <<"units_total", 2>> >>,
                 << <<"date", "2024-02-02">>, <<"D", 1>>, <<"A", 3>>, <<"total", 4>>,
                    <<"orders_total", 2>> >> >>]

Bodies == {BodyNoRows, BodyEmpty, BodyAB, BodyAD}

Outcomes ==
    {[kind |-> "ok", body |-> b] : b \in Bodies}
        \cup {[kind |-> "http", code |-> 500], [kind |-> "transport"]}

\* a response without rows keeps the rows of the load before
RowsOfKeepingOld(body) == IF "rows" \in DOMAIN body THEN body.rows ELSE rows

\* res.rows || []  and  res.currency || null  (line 102), res.tz || "?" (line 115)
RowsOf(body) == IF "rows" \in DOMAIN body THEN body.rows ELSE <<>>

\* a response without currency keeps the currency of the load before
CurrencyOfKeepingOld(body) == IF "currency" \in DOMAIN body THEN body.currency ELSE currency

CurrencyOf(body) == IF "currency" \in DOMAIN body THEN body.currency ELSE Null

TzOf(body) == IF "tz" \in DOMAIN body THEN body.tz ELSE "?"

(***************************************************************************)
(* setStatus (line 31)                                                     *)
(***************************************************************************)
setStatus(msg, err) == [text |-> msg, err |-> err]

(***************************************************************************)
(* Lines 104-110: the series keys of a row sequence                        *)
(***************************************************************************)
RECURSIVE AddAll(_, _)
\* Set.prototype.add over a key list: insertion order, no duplicates
AddAll(acc, ks) ==
    IF ks = <<>> THEN acc
    ELSE LET k == Head(ks)
             keep == k \notin Excluded /\ ~(\E i \in 1..Len(acc) : acc[i] = k)
         IN  AddAll(IF keep THEN Append(acc, k) ELSE acc, Tail(ks))

RECURSIVE CollectKeys(_, _)
CollectKeys(acc, rs) ==
    IF rs = <<>> THEN acc
    ELSE CollectKeys(AddAll(acc, ObjectKeys(Head(rs))), Tail(rs))

RECURSIVE Insert(_, _)
Insert(k, s) ==
    IF s = <<>> THEN <<k>>
    ELSE IF StrLess(k, Head(s)) THEN <<k>> \o s
    ELSE <<Head(s)>> \o Insert(k, Tail(s))

RECURSIVE Sort(_)
Sort(s) == IF s = <<>> THEN <<>> ELSE Insert(Head(s), Sort(Tail(s)))

\* the keys in insertion order, the sort left out
DeriveKeysUnsorted(rs) == CollectKeys(<<>>, rs)

DeriveKeys(rs) == Sort(CollectKeys(<<>>, rs))

Range(s) == {s[i] : i \in 1..Len(s)}

(***************************************************************************)
(* refreshSelected (lines 56-59) and render (lines 61-93)                  *)
(***************************************************************************)
CheckedKeys(cs) == {cs[i].key : i \in {j \in 1..Len(cs) : cs[j].checked}}

\* a trace that leaves out the rows lacking the key instead of filling in 0
ProductTraceWithGaps(rs, k, chart) ==
    LET have == SelectSeq(rs, LAMBDA r : Has(r, k))
    IN  [x |-> [i \in 1..Len(have) |-> Prop(have[i], "date")],
         y |-> [i \in 1..Len(have) |-> Prop(have[i], k)],
         type |-> IF chart = "bar" THEN "bar" ELSE "scatter",
         name |-> k,
         yaxis |-> "y"]

ProductTrace(rs, k, chart) ==
    [x |-> [i \in 1..Len(rs) |-> Prop(rs[i], "date")],
     y |-> [i \in 1..Len(rs) |-> OrZero(rs[i], k)],
     type |-> IF chart = "bar" THEN "bar" ELSE "scatter",
     name |-> k,
     yaxis |-> "y"]

OrdersTrace(rs) ==
    [x |-> [i \in 1..Len(rs) |-> Prop(rs[i], "date")],
     y |-> [i \in 1..Len(rs) |-> OrZero(rs[i], "orders_total")],
     type |-> "scatter",
     name |-> "Orders",
     yaxis |-> "y2"]

Layout(metric, cur) ==
    [title |-> IF metric = "sales" THEN "Sales $" ELSE "Units",
     yaxis |-> IF metric = "sales"
               THEN <<"Sales", IF cur # Null THEN cur ELSE "USD">>
               ELSE <<"Units">>]

\* a chart that draws every key, whatever the selection
ChartIgnoringSelection(rs, keys, sel, metric, chart, orders, cur) ==
    [traces |-> [i \in 1..Len(keys) |-> ProductTrace(rs, keys[i], chart)]
                    \o (IF orders THEN <<OrdersTrace(rs)>> ELSE <<>>),
     layout |-> Layout(metric, cur)]

\* the chart render builds from the state it reads, sel being the refreshed selection
Chart(rs, keys, sel, metric, chart, orders, cur) ==
    LET ks == SelectSeq(keys, LAMBDA k : k \in sel)
    IN  [traces |-> [i \in 1..Len(ks) |-> ProductTrace(rs, ks[i], chart)]
                        \o (IF orders THEN <<OrdersTrace(rs)>> ELSE <<>>),
         layout |-> Layout(metric, cur)]

\* lines 41 and 113: selected as loadSales leaves it when it calls render (line 116)
SelectedBeforeRender(keys) == Range(keys)

\* render with the state as the handler that calls it leaves it
render(cs, rs, keys, metric, chart, orders, cur) ==
    /\ selected' = CheckedKeys(cs)
    /\ plot' = <<Chart(rs, keys, CheckedKeys(cs), metric, chart, orders, cur)>>

(***************************************************************************)
(* buildTypeFilters (lines 39-55)                                          *)
(***************************************************************************)
\* chips added after the ones already there (line 40 left out)
BuildChipsAppending(keys) ==
    chips \o [i \in 1..Len(keys) |-> [key |-> keys[i], checked |-> TRUE]]

\* chips that keep the checked state of the selection before the rebuild
BuildChipsKeepingSelection(keys) ==
    [i \in 1..Len(keys) |-> [key |-> keys[i], checked |-> keys[i] \in selected]]

BuildChips(keys) == [i \in 1..Len(keys) |-> [key |-> keys[i], checked |-> TRUE]]

\* only the first chip is set
SetAllButFirstOnly(cs, b) ==
    [i \in 1..Len(cs) |-> IF i = 1 THEN [cs[i] EXCEPT !.checked = b] ELSE cs[i]]

SetAll(cs, b) == [i \in 1..Len(cs) |-> [cs[i] EXCEPT !.checked = b]]

(***************************************************************************)
(* Initial state: the script has run to its end (line 132).  The defaults  *)
(* of the controls come from the page, which may set any of them.          *)
(***************************************************************************)
Init ==
    /\ shop \in Shops
    /\ groupEl \in GroupValues
    /\ metricEl \in MetricValues
    /\ chartEl \in ChartValues
    /\ showOrdersEl \in BOOLEAN
    /\ hide \in BOOLEAN
    /\ chips = <<>>
    /\ onclickKeys = <<>>
    /\ rows = <<>>
    /\ seriesKeys = <<>>
    /\ selected = {}
    /\ currency = Null
    /\ plot = <<>>
    /\ loaded = <<>>
    /\ IF shop # ""
       THEN /\ statusEl = setStatus(<<"Loading">>, FALSE)
            /\ inflight = <<[shop |-> shop, gb |-> groupEl, mt |-> metricEl]>>
       ELSE /\ statusEl = setStatus(<<"Add ?shop=">>, TRUE)
            /\ inflight = <<>>

(***************************************************************************)
(* loadSales up to its await (lines 95-101)                                *)
(***************************************************************************)
\* a loader that drops the pending requests when it issues a new one
loadSalesStartCancelling(gb, mt) ==
    /\ Len(inflight) < MaxPending
    /\ statusEl' = setStatus(<<"Loading">>, FALSE)
    /\ inflight' = <<[shop |-> shop, gb |-> gb, mt |-> mt]>>
    /\ UNCHANGED <<shop, chartEl, showOrdersEl, hide, chips, onclickKeys, rows,
                   seriesKeys, selected, currency, plot, loaded>>

loadSalesStart(gb, mt) ==
    /\ Len(inflight) < MaxPending
    /\ statusEl' = setStatus(<<"Loading">>, FALSE)
    /\ inflight' = Append(inflight, [shop |-> shop, gb |-> gb, mt |-> mt])
    /\ UNCHANGED <<shop, chartEl, showOrdersEl, hide, chips, onclickKeys, rows,
                   seriesKeys, selected, currency, plot, loaded>>

ClickLoad ==
    /\ loadSalesStart(groupEl, metricEl)
    /\ UNCHANGED <<groupEl, metricEl>>

\* the date strings only feed the request URL
ChangeStart ==
    /\ loadSalesStart(groupEl, metricEl)
    /\ UNCHANGED <<groupEl, metricEl>>

ChangeEnd ==
    /\ loadSalesStart(groupEl, metricEl)
    /\ UNCHANGED <<groupEl, metricEl>>

ChangeGroup(v) ==
    /\ v # groupEl
    /\ groupEl' = v
    /\ loadSalesStart(v, metricEl)
    /\ UNCHANGED metricEl

ChangeMetric(v) ==
    /\ v # metricEl
    /\ metricEl' = v
    /\ loadSalesStart(groupEl, v)
    /\ UNCHANGED groupEl

(***************************************************************************)
(* loadSales after its await (lines 101-119)                               *)
(***************************************************************************)
Remove(s, i) == SubSeq(s, 1, i - 1) \o SubSeq(s, i + 1, Len(s))

ApplyResponse(req, body) ==
    LET newRows == RowsOf(body)
        newCur == CurrencyOf(body)
        newKeys == DeriveKeys(newRows)
        tz == TzOf(body)
        newChips == IF req.gb = Categorical THEN BuildChips(newKeys) ELSE chips
    IN  /\ rows' = newRows
        /\ currency' = newCur
        /\ seriesKeys' = newKeys
        /\ hide' = (req.gb # Categorical)
        /\ chips' = newChips
        /\ onclickKeys' = IF req.gb = Categorical THEN <<newKeys>> ELSE onclickKeys
        /\ statusEl' = setStatus(<<"Loaded", Len(newRows), Len(newKeys), tz>>, FALSE)
        /\ render(newChips, newRows, newKeys, metricEl, chartEl, showOrdersEl, newCur)
        /\ loaded' = <<req>>

\* a failure path that reports nothing
FailLoadSilent(o) ==
    UNCHANGED <<statusEl, hide, chips, onclickKeys, rows, seriesKeys, selected,
                currency, plot, loaded>>

\* a failure path that clears the data before it reports
FailLoadClearing(o) ==
    /\ statusEl' = setStatus(<<"Load failed", o.kind>>, TRUE)
    /\ rows' = <<>>
    /\ currency' = Null
    /\ UNCHANGED <<hide, chips, onclickKeys, seriesKeys, selected, plot, loaded>>

FailLoad(o) ==
    /\ statusEl' = setStatus(<<"Load failed", o.kind>>, TRUE)
    /\ UNCHANGED <<hide, chips, onclickKeys, rows, seriesKeys, selected, currency,
                   plot, loaded>>

Resolve(i, o) ==
    /\ i \in 1..Len(inflight)
    /\ inflight' = Remove(inflight, i)
    /\ IF o.kind = "ok" THEN ApplyResponse(inflight[i], o.body) ELSE FailLoad(o)
    /\ UNCHANGED <<shop, groupEl, metricEl, chartEl, showOrdersEl>>

(***************************************************************************)
(* Render-only events (lines 48, 53, 54, 124, 127)                         *)
(***************************************************************************)
ChangeChart(v) ==
    /\ v # chartEl
    /\ chartEl' = v
    /\ render(chips, rows, seriesKeys, metricEl, v, showOrdersEl, currency)
    /\ UNCHANGED <<shop, groupEl, metricEl, showOrdersEl, statusEl, hide, chips,
                   onclickKeys, rows, seriesKeys, currency, inflight, loaded>>

\* a refresh that also rewrites the status line
ChangeShowOrdersSettingStatus ==
    /\ showOrdersEl' = ~showOrdersEl
    /\ render(chips, rows, seriesKeys, metricEl, chartEl, ~showOrdersEl, currency)
    /\ statusEl' = setStatus(<<"Loaded", Len(rows), Len(seriesKeys), "?">>, FALSE)
    /\ UNCHANGED <<shop, groupEl, metricEl, chartEl, hide, chips,
                   onclickKeys, rows, seriesKeys, currency, inflight, loaded>>

ChangeShowOrders ==
    /\ showOrdersEl' = ~showOrdersEl
    /\ render(chips, rows, seriesKeys, metricEl, chartEl, ~showOrdersEl, currency)
    /\ UNCHANGED <<shop, groupEl, metricEl, chartEl, statusEl, hide, chips,
                   onclickKeys, rows, seriesKeys, currency, inflight, loaded>>

\* a chip can be reached only while the filter card is shown
ToggleChip(i) ==
    /\ ~hide
    /\ i \in 1..Len(chips)
    /\ chips' = [chips EXCEPT ![i].checked = ~chips[i].checked]
    /\ render(chips', rows, seriesKeys, metricEl, chartEl, showOrdersEl, currency)
    /\ UNCHANGED <<shop, groupEl, metricEl, chartEl, showOrdersEl, statusEl, hide,
                   onclickKeys, rows, seriesKeys, currency, inflight, loaded>>

\* the handlers assign selected (lines 53, 54) and call render, whose
\* refreshSelected assigns it again from the chips just set
SelectAll ==
    /\ ~hide
    /\ onclickKeys # <<>>
    /\ chips' = SetAll(chips, TRUE)
    /\ render(chips', rows, seriesKeys, metricEl, chartEl, showOrdersEl, currency)
    /\ UNCHANGED <<shop, groupEl, metricEl, chartEl, showOrdersEl, statusEl, hide,
                   onclickKeys, rows, seriesKeys, currency, inflight, loaded>>

SelectNone ==
    /\ ~hide
    /\ onclickKeys # <<>>
    /\ chips' = SetAll(chips, FALSE)
    /\ render(chips', rows, seriesKeys, metricEl, chartEl, showOrdersEl, currency)
    /\ UNCHANGED <<shop, groupEl, metricEl, chartEl, showOrdersEl, statusEl, hide,
                   onclickKeys, rows, seriesKeys, currency, inflight, loaded>>

Next ==
    \/ ClickLoad
    \/ ChangeStart
    \/ ChangeEnd
    \/ \E v \in GroupValues : ChangeGroup(v)
    \/ \E v \in MetricValues : ChangeMetric(v)
    \/ \E i \in 1..MaxPending, o \in Outcomes : Resolve(i, o)
    \/ \E v \in ChartValues : ChangeChart(v)
    \/ ChangeShowOrders
    \/ \E i \in 1..Len(chips) : ToggleChip(i)
    \/ SelectAll
    \/ SelectNone

Spec == Init /\ [][Next]_vars

\* the request issued first among the pending ones settles: a fetch ends in a
\* response or in a failure, and the event loop then resumes loadSales
SettleOldest == \E o \in Outcomes : Resolve(1, o)

FairSpec == Spec /\ WF_vars(SettleOldest)

(***************************************************************************)
(* Vocabulary of the properties                                            *)
(***************************************************************************)
\* the product traces of a chart (primary axis), and the names of a trace list
ProductTraces(c) == SelectSeq(c.traces, LAMBDA t : t.yaxis = "y")

Names(ts) == [i \in 1..Len(ts) |-> ts[i].name]

\* the field a trace takes its values from
SourceField(t) == IF t.yaxis = "y2" THEN "orders_total" ELSE t.name

\* the keys of seriesKeys that are in selected, in the order of seriesKeys
VisibleKeys == SelectSeq(seriesKeys, LAMBDA k : k \in selected)

Ascending(s) == \A i, j \in 1..Len(s) : i < j => StrLess(s[i], s[j])

\* the field names occurring in at least one of the rows rs
FieldNames(rs) == UNION {Range(ObjectKeys(rs[i])) : i \in 1..Len(rs)}

ChipKeys == [i \in 1..Len(chips) |-> chips[i].key]

LoadEvent ==
    \/ ClickLoad
    \/ ChangeStart
    \/ ChangeEnd
    \/ \E v \in GroupValues : ChangeGroup(v)
    \/ \E v \in MetricValues : ChangeMetric(v)

RenderOnlyEvent ==
    \/ \E v \in ChartValues : ChangeChart(v)
    \/ ChangeShowOrders
    \/ \E i \in 1..Len(chips) : ToggleChip(i)
    \/ SelectAll
    \/ SelectNone

(***************************************************************************)
(* C1: in every state between events, Selection is a subset of the current *)
(* SeriesKeySet.                                                           *)
(***************************************************************************)
C1_SelectionSubsetOfKeys == selected \subseteq Range(seriesKeys)

(***************************************************************************)
(* C2: after a load whose grouping dimension is not categorical, the chart *)
(* holds one product trace for every key of the current SeriesKeySet,      *)
(* whatever chips exist or are checked.                                    *)
(***************************************************************************)
C2_HiddenFilterPlotsAllKeys ==
    (loaded # <<>> /\ loaded[1].gb # Categorical)
        => /\ plot # <<>>
           /\ Names(ProductTraces(plot[1])) = seriesKeys

(***************************************************************************)
(* C3: the chart holds exactly |SeriesKeySet \cap Selection| product       *)
(* traces, in the sorted order of SeriesKeySet and of the type of the      *)
(* chart control, followed by exactly one Orders trace on the secondary    *)
(* axis if and only if showOrders is set.                                  *)
(***************************************************************************)
C3_TraceCountAndOrder ==
    plot # <<>> =>
        LET ts == plot[1].traces
            n == Cardinality(Range(seriesKeys) \cap selected)
        IN  /\ Len(ts) = n + (IF showOrdersEl THEN 1 ELSE 0)
            /\ \A i \in 1..n :
                  /\ ts[i].yaxis = "y"
                  /\ ts[i].name = VisibleKeys[i]
                  /\ ts[i].type = (IF chartEl = "bar" THEN "bar" ELSE "scatter")
            /\ Ascending([i \in 1..n |-> ts[i].name])
            /\ showOrdersEl =>
                  /\ ts[n + 1].yaxis = "y2"
                  /\ ts[n + 1].name = "Orders"
                  /\ ts[n + 1].type = "scatter"

C3_Witness ==
    /\ plot # <<>>
    /\ seriesKeys = <<"A", "B">>
    /\ selected = {"B"}
    /\ showOrdersEl
    /\ chartEl = "line"
    /\ Names(plot[1].traces) = <<"B", "Orders">>

(***************************************************************************)
(* C4: sparse fill.  Every trace of the chart has one value per loaded     *)
(* row, in row order: the row's value for the trace's field, or 0 when the *)
(* row lacks the field.                                                    *)
(***************************************************************************)
C4_SparseFill ==
    plot # <<>> =>
        \A j \in 1..Len(plot[1].traces) :
            LET t == plot[1].traces[j]
            IN  /\ Len(t.y) = Len(rows)
                /\ Len(t.x) = Len(rows)
                /\ \A i \in 1..Len(rows) :
                      /\ t.x[i] = Prop(rows[i], "date")
                      /\ t.y[i] = (IF Has(rows[i], SourceField(t))
                                   THEN Prop(rows[i], SourceField(t)) ELSE 0)

C4_Witness ==
    /\ plot # <<>>
    /\ Len(rows) = 2
    /\ ~Has(rows[2], "B")
    /\ \E j \in 1..Len(plot[1].traces) :
          /\ plot[1].traces[j].name = "B"
          /\ plot[1].traces[j].y = <<2, 0>>

(***************************************************************************)
(* C5: SeriesKeySet is exactly the set of field names, other than date and *)
(* the four reserved names, occurring in at least one current row, without *)
(* duplicates and in ascending order.                                      *)
(***************************************************************************)
C5_SeriesKeysDerivedFromRows ==
    /\ Range(seriesKeys)
          = FieldNames(rows) \ {"date", "total", "orders_total", "units_total", "sales_total"}
    /\ Ascending(seriesKeys)
    /\ Cardinality(Range(seriesKeys)) = Len(seriesKeys)

\* keys A, D from rows that list D first and carry reserved fields, while the
\* chips still show the keys A, B of an earlier load
C5_Witness ==
    /\ seriesKeys = <<"A", "D">>
    /\ Has(rows[1], "total")
    /\ ObjectKeys(rows[1])[2] = "D"
    /\ [i \in 1..Len(chips) |-> chips[i].key] = <<"A", "B">>

(***************************************************************************)
(* C6: a successful load whose grouping dimension is categorical leaves    *)
(* Selection equal to the new SeriesKeySet (one checked chip per new key), *)
(* whatever was selected before, and its render plots every new key.       *)
(***************************************************************************)
C6_CategoricalLoadSelectsAll ==
    [][\A i \in 1..Len(inflight), o \in Outcomes :
          (o.kind = "ok" /\ inflight[i].gb = Categorical /\ Resolve(i, o)) =>
              /\ Range(seriesKeys') = FieldNames(RowsOf(o.body)) \ Excluded
              /\ selected' = Range(seriesKeys')
              /\ [j \in 1..Len(chips') |-> chips'[j].key] = seriesKeys'
              /\ \A j \in 1..Len(chips') : chips'[j].checked
              /\ Names(ProductTraces(plot'[1])) = seriesKeys']_vars

C6_Witness ==
    /\ loaded # <<>>
    /\ loaded[1].gb = Categorical
    /\ statusEl.text[1] = "Loaded"
    /\ ~hide
    /\ seriesKeys = <<"A", "D">>
    /\ selected = {"A", "D"}
    /\ Names(ProductTraces(plot[1])) = <<"A", "D">>

(***************************************************************************)
(* C7: a load that fails (non-success response or transport failure)       *)
(* changes nothing but the status, which becomes an error message: neither *)
(* its invocation nor its failure touches rows, SeriesKeySet, Selection,   *)
(* currency, the chips or the chart.                                       *)
(***************************************************************************)
C7_FailedLoadChangesOnlyStatus ==
    [][/\ LoadEvent => UNCHANGED <<rows, seriesKeys, selected, currency, chips, plot>>
       /\ \A i \in 1..Len(inflight), o \in Outcomes :
             (o.kind # "ok" /\ Resolve(i, o)) =>
                 /\ UNCHANGED <<rows, seriesKeys, selected, currency, chips, plot>>
                 /\ statusEl'.err
                 /\ statusEl'.text[1] = "Load failed"]_vars

C7_Witness ==
    /\ statusEl.err
    /\ statusEl.text[1] = "Load failed"
    /\ Len(rows) = 2
    /\ seriesKeys = <<"A", "B">>
    /\ selected = {"A"}
    /\ currency = "EUR"

(***************************************************************************)
(* C8: a press of the load button or a change of start date, end date,     *)
(* grouping dimension or metric adds exactly one request, for the values   *)
(* the controls then have, and keeps every pending one; a change of chart  *)
(* type or show-orders, a chip toggle, selectAll and selectNone issue none *)
(* and leave rows, SeriesKeySet and currency unchanged.  No other step     *)
(* adds a request (no retry), and a step that ends one ends only that one. *)
(***************************************************************************)
C8_ReloadVersusRenderOnly ==
    [][/\ LoadEvent =>
             inflight' = Append(inflight, [shop |-> shop, gb |-> groupEl', mt |-> metricEl'])
       /\ RenderOnlyEvent => UNCHANGED <<inflight, rows, seriesKeys, currency>>
       /\ Len(inflight') > Len(inflight) => LoadEvent
       /\ Len(inflight') < Len(inflight) =>
             \E i \in 1..Len(inflight) : inflight' = Remove(inflight, i)]_vars

C8_Witness ==
    /\ Len(inflight) = 2
    /\ inflight[1].mt # inflight[2].mt
    /\ chartEl = "line"
    /\ plot # <<>>
    /\ plot[1].traces # <<>>
    /\ plot[1].traces[1].type = "scatter"

(***************************************************************************)
(* C9: while the shop id is missing, no network request is ever issued,    *)
(* whatever the user does.                                                 *)
(***************************************************************************)
C9_NoRequestWithoutShop == shop = "" => inflight = <<>>

(***************************************************************************)
(* C10: when a request resolves successfully after an overlapping one has  *)
(* (the status still shows the earlier result, so the request was pending  *)
(* when that result arrived), rows, SeriesKeySet and Selection are those   *)
(* derived from the response that resolved last, with nothing left of the  *)
(* earlier response.                                                       *)
(***************************************************************************)
C10_LastResolvedResponseOwnsState ==
    [][\A o \in Outcomes :
          (/\ statusEl.text[1] = "Loaded"
           /\ Len(inflight) = 1
           /\ o.kind = "ok"
           /\ Resolve(1, o)) =>
              /\ rows' = RowsOf(o.body)
              /\ Range(seriesKeys') = FieldNames(rows') \ Excluded
              /\ Ascending(seriesKeys')
              /\ selected' = Range(seriesKeys')]_vars

(***************************************************************************)
(* C11 (as the code has it): a successful response without rows is an      *)
(* empty dataset, not a failure: rows and SeriesKeySet are empty, the      *)
(* chart has no product trace and the status reports zero rows and zero    *)
(* series.  With categorical grouping the chip list is emptied; with any   *)
(* other grouping the chips of an earlier categorical load stay, hidden.   *)
(***************************************************************************)
C11_MissingRowsIsEmptyDataset ==
    [][\A i \in 1..Len(inflight) :
          Resolve(i, [kind |-> "ok", body |-> BodyNoRows]) =>
              /\ rows' = <<>>
              /\ seriesKeys' = <<>>
              /\ ProductTraces(plot'[1]) = <<>>
              /\ ~statusEl'.err
              /\ SubSeq(statusEl'.text, 1, 3) = <<"Loaded", 0, 0>>
              /\ chips' = (IF inflight[i].gb = Categorical THEN <<>> ELSE chips)]_vars

\* C11 as claimed: the chip list is empty afterwards for every grouping
C11_MissingRowsEmptiesChips ==
    [][\A i \in 1..Len(inflight) :
          Resolve(i, [kind |-> "ok", body |-> BodyNoRows]) =>
              /\ rows' = <<>>
              /\ seriesKeys' = <<>>
              /\ ProductTraces(plot'[1]) = <<>>
              /\ SubSeq(statusEl'.text, 1, 3) = <<"Loaded", 0, 0>>
              /\ chips' = <<>>]_vars

\* an empty dataset shown after a load with data, the old chips still there
C11_Witness ==
    /\ loaded # <<>>
    /\ loaded[1].gb # Categorical
    /\ statusEl = setStatus(<<"Loaded", 0, 0, "UTC">>, FALSE)
    /\ rows = <<>>
    /\ seriesKeys = <<>>
    /\ plot[1].traces = <<>>
    /\ Len(chips) = 2

(***************************************************************************)
(* C12: render has no effect on the application state: wherever it is      *)
(* invoked (by the chart-type and show-orders listeners, and by loadSales  *)
(* at line 116) rows, SeriesKeySet, Selection and currency are afterwards  *)
(* what they were at the call.                                             *)
(***************************************************************************)
C12_RenderLeavesStateUnchanged ==
    [][/\ ((\E v \in ChartValues : ChangeChart(v)) \/ ChangeShowOrders)
             => UNCHANGED <<rows, seriesKeys, selected, currency>>
       /\ \A i \in 1..Len(inflight), o \in Outcomes :
             (o.kind = "ok" /\ Resolve(i, o)) =>
                 selected' = SelectedBeforeRender(seriesKeys')]_vars

(***************************************************************************)
(* C13: after selectNone, Selection is empty and the chart has no product  *)
(* trace, the Orders trace being there iff showOrders is set; after        *)
(* selectAll, Selection is the current SeriesKeySet and the chart has one  *)
(* product trace per key.                                                  *)
(***************************************************************************)
C13_SelectAllAndNone ==
    [][/\ SelectNone =>
             /\ selected' = {}
             /\ ProductTraces(plot'[1]) = <<>>
             /\ Names(plot'[1].traces) = (IF showOrdersEl THEN <<"Orders">> ELSE <<>>)
       /\ SelectAll =>
             /\ selected' = Range(seriesKeys)
             /\ Names(ProductTraces(plot'[1])) = seriesKeys
             /\ Len(plot'[1].traces) = Len(seriesKeys) + (IF showOrdersEl THEN 1 ELSE 0)]_vars

C13_Witness ==
    /\ ~hide
    /\ seriesKeys = <<"A", "B">>
    /\ \A i \in 1..Len(chips) : ~chips[i].checked
    /\ selected = {}
    /\ showOrdersEl
    /\ Names(plot[1].traces) = <<"Orders">>

(***************************************************************************)
(* C14: given that requests settle, a load ends in Ready or in Error: the  *)
(* step that settles a request sets the status to the loaded rows or to    *)
(* the failure (in the error colour), a status of Loading is always        *)
(* followed by one of the two, and with no request pending the status is   *)
(* not Loading.                                                            *)
(***************************************************************************)
C14_LoadTerminates ==
    /\ [](inflight = <<>> => statusEl.text[1] # "Loading")
    /\ [][Len(inflight') < Len(inflight) =>
             \/ /\ statusEl'.text[1] = "Loaded"
                /\ statusEl'.text[2] = Len(rows')
                /\ ~statusEl'.err
             \/ /\ statusEl'.text[1] = "Load failed"
                /\ statusEl'.err
                /\ UNCHANGED <<rows, seriesKeys, plot>>]_vars
    /\ (statusEl.text[1] = "Loading")
           ~> (statusEl.text[1] \in {"Loaded", "Load failed"})

C14_Witness ==
    /\ inflight = <<>>
    /\ statusEl.text[1] = "Load failed"
    /\ statusEl.err
    /\ loaded # <<>>

(***************************************************************************)
(* C15: a render-only event (chart type, show-orders, chip toggle,         *)
(* selectAll, selectNone) leaves the status line as it is, also while a    *)
(* load is pending.                                                        *)
(***************************************************************************)
C15_RenderOnlyKeepsStatus == [][RenderOnlyEvent => UNCHANGED statusEl]_vars

\* a chart redrawn with a chip unchecked, while a request is pending
C15_Witness ==
    /\ statusEl.text[1] = "Loading"
    /\ inflight # <<>>
    /\ ~hide
    /\ seriesKeys = <<"A", "B">>
    /\ selected = {"B"}
    /\ Names(ProductTraces(plot[1])) = <<"B">>

(***************************************************************************)
(* C16 (as the code has it): while the filter card is shown, the chip list *)
(* holds exactly one chip per key of the current SeriesKeySet, in the same *)
(* order; a successful load with non-categorical grouping hides the card   *)
(* and leaves the chips of the earlier categorical load as they are.       *)
(***************************************************************************)
C16_ChipsMatchKeysWhileShown ==
    /\ [](~hide => ChipKeys = seriesKeys)
    /\ [][(/\ Len(inflight') < Len(inflight)
            /\ ~statusEl'.err
            /\ loaded'[1].gb # Categorical) => (hide' /\ chips' = chips)]_vars

\* C16 as claimed: one chip per key of the current SeriesKeySet in every state
C16_ChipsMatchKeys == ChipKeys = seriesKeys

C16_Witness ==
    /\ ~hide
    /\ seriesKeys = <<"A", "D">>
    /\ ChipKeys = <<"A", "D">>
    /\ ~chips[1].checked
    /\ chips[2].checked

(***************************************************************************)
(* C17: the currency is that of the last successful load: a successful     *)
(* load without currency resets it, so that the revenue axis shows the     *)
(* fallback USD; a failed load leaves it unchanged; the axis label of a    *)
(* chart in unit-count mode holds no currency.                             *)
(***************************************************************************)
C17_CurrencyOfLastLoad ==
    /\ [](plot # <<>> =>
            plot[1].layout.yaxis
                = (IF plot[1].layout.title = "Sales $"
                   THEN <<"Sales", IF currency = Null THEN "USD" ELSE currency>>
                   ELSE <<"Units">>))
    /\ [][Len(inflight') < Len(inflight) =>
             IF statusEl'.err
             THEN currency' = currency
             ELSE \E b \in Bodies :
                      /\ rows' = RowsOf(b)
                      /\ currency' = (IF "currency" \in DOMAIN b THEN b.currency
                                      ELSE Null)]_vars

\* the fallback shown for rows loaded after a load that had a currency
C17_Witness ==
    /\ currency = Null
    /\ seriesKeys = <<"A", "D">>
    /\ ChipKeys = <<"A", "B">>
    /\ plot[1].layout.yaxis = <<"Sales", "USD">>

(***************************************************************************)
(* C18: the metric named in the layout of the chart (title and primary     *)
(* axis label) is the metric with which the rows on display were           *)
(* requested.                                                              *)
(***************************************************************************)
C18_LayoutMetricIsRowsMetric ==
    (plot # <<>> /\ loaded # <<>>) =>
        /\ plot[1].layout.title = (IF loaded[1].mt = "sales" THEN "Sales $" ELSE "Units")
        /\ plot[1].layout.yaxis[1] = (IF loaded[1].mt = "sales" THEN "Sales" ELSE "Units")

(***************************************************************************)
(* C19: whenever a request is in flight the status shows Loading; a Loaded *)
(* or Load-failed message shows only when none is pending.                 *)
(***************************************************************************)
C19_LoadingWhilePending == inflight # <<>> => statusEl.text[1] = "Loading"
====
